---- MODULE Spec2Model ----
(***************************************************************************)
(* Model of the ResearchHub component                                      *)
(* (src/Proof-o-concept/AI-Assisste-research-.js): the in-memory           *)
(* collections (documents, selectedDoc, notes, links), the external        *)
(* key-value store behind window.storage, the AnalysisService call, and    *)
(* the handlers loadData, analyzeDocument, handleFileUpload,               *)
(* regenerateAnalysis, addNote, linkDocuments, deleteDocument and addTag.  *)
(* JavaScript runs the handlers on one thread: an action below is one      *)
(* uninterrupted run of a handler between two of its awaits.               *)
(***************************************************************************)
EXTENDS Integers, Sequences, FiniteSets, TLC

(***************************************************************************)
(* Bounds of the model.                                                    *)
(***************************************************************************)
MaxOps == 3
MaxLoads == 2
MaxPending == 1
MaxBad == 1

(***************************************************************************)
(* JavaScript values.  An object is a record (a function from property     *)
(* names); a missing property reads as undefined; null is its own value.   *)
(***************************************************************************)
Undefined == "<undefined>"
JsonNull == "<null>"
JsNull == [null |-> TRUE]

IsNull(v) == v = JsNull

\* obj.prop : undefined when the property is missing; a TypeError on null is
\* the caller's case to handle (see Throws below).
Prop(obj, p) == IF p \in DOMAIN obj THEN obj[p] ELSE Undefined

\* { ...a, ...b } : the own properties of b over those of a; spreading null
\* adds nothing.
Spread(a, b) ==
  IF IsNull(b) THEN a
  ELSE [k \in (DOMAIN a) \cup (DOMAIN b) |-> IF k \in DOMAIN b THEN b[k] ELSE a[k]]

\* arr.slice(1)
Slice1(s) == IF Len(s) <= 1 THEN <<>> ELSE SubSeq(s, 2, Len(s))

Includes(s, x) == \E i \in 1..Len(s) : s[i] = x

Range(s) == {s[i] : i \in 1..Len(s)}

(***************************************************************************)
(* JSON.stringify / JSON.parse on the payloads the component stores.       *)
(* stringify turns an undefined array element into null (a property that  *)
(* is missing stays missing); the text of a stored value is kept as the    *)
(* JSON value it denotes, so parse gives back what stringify wrote, which  *)
(* is not always what stringify was given.                                 *)
(***************************************************************************)
StringifyArr(s) == [i \in 1..Len(s) |-> IF s[i] = Undefined THEN JsonNull ELSE s[i]]

StringifyDoc(d) ==
  [k \in DOMAIN d |-> IF k = "tags" THEN StringifyArr(d[k]) ELSE d[k]]

\* a list of notes or of link targets: objects of strings, and strings, which
\* JSON text denotes as they are
StringifyList(s) == s

\* A stored string: valid JSON text of a value, text that is not JSON, or the
\* empty string.
JsonText(v) == [kind |-> "json", val |-> v]
Corrupt == [kind |-> "corrupt"]
EmptyText == [kind |-> "empty"]

ParseThrows(s) == s.kind # "json"
Parse(s) == s.val

(***************************************************************************)
(* AnalysisService results (the JSON the model is asked to return).        *)
(***************************************************************************)
Fallback ==
  [summary |-> "Analysis unavailable", keywords |-> <<>>, entities |-> <<>>,
   topic |-> "General"]

ResultA ==
  [summary |-> "Meeting about graph theory", keywords |-> <<"graph", "theory">>,
   entities |-> <<"Alice", "Bob">>, topic |-> "Mathematics"]

ResultB ==
  [summary |-> "Qubits", keywords |-> <<"Quantum">>, entities |-> <<>>,
   topic |-> "Physics"]

\* valid JSON that is not an AnalysisResult: an object without topic, and null
ResultNoTopic ==
  [summary |-> "Qubits", keywords |-> <<"Quantum">>, entities |-> <<>>]


(***************************************************************************)
(* The AnalysisService reply as fetch hands it over.  The text of a        *)
(* content item is a sequence of tokens: a code fence (with or without json),    *)
(* white space, prose, or the text of one JSON value.                      *)
(***************************************************************************)
FenceJson == [t |-> "fence_json"]
Fence == [t |-> "fence"]
Ws == [t |-> "ws"]
Prose == [t |-> "prose"]
Val(v) == [t |-> "value", val |-> v]

TextItem(toks) == [type |-> "text", text |-> toks]
OtherItem(toks) == [type |-> "tool_use", text |-> toks]

\* a body that is not JSON (an HTML error page), a JSON body without a
\* content array (the API's error object), a JSON body with content items
NotJsonBody == [isJson |-> FALSE]
ErrorObjectBody == [isJson |-> TRUE, hasContent |-> FALSE]
ContentBody(items) == [isJson |-> TRUE, hasContent |-> TRUE, content |-> items]

Bodies ==
  { NotJsonBody,
    ErrorObjectBody,
    ContentBody(<<>>),
    ContentBody(<<TextItem(<<Val(ResultA)>>)>>),
    ContentBody(<<TextItem(<<FenceJson, Ws, Val(ResultB), Ws, Fence>>)>>),
    ContentBody(<<OtherItem(<<Prose>>), TextItem(<<Ws, Val(ResultA)>>)>>),
    ContentBody(<<TextItem(<<Prose, Val(ResultA)>>)>>),
    ContentBody(<<TextItem(<<Val(ResultA)>>), TextItem(<<Val(ResultB)>>)>>),
    ContentBody(<<TextItem(<<Val(ResultNoTopic)>>)>>),
    ContentBody(<<TextItem(<<Val(JsNull)>>)>>) }

\* fetch rejects (no reply at all), or resolves with a reply: ok is
\* response.ok, false for an HTTP error status
NoReply == [net |-> FALSE]
Reply(ok, body) == [net |-> TRUE, ok |-> ok, body |-> body]

Responses == {NoReply} \cup {Reply(ok, b) : ok \in BOOLEAN, b \in Bodies}

IsHttpError(resp) == resp.net /\ ~resp.ok
IsNotJson(resp) == resp.net /\ ~resp.body.isJson

(***************************************************************************)
(* analyzeDocument (lines 76-120).                                         *)
(***************************************************************************)
PrefixLimit == 5000

\* text.slice(0, 5000) inside the prompt; a text is known by its name and
\* its length
SlicePrefix(text) ==
  [text EXCEPT !.len = IF text.len < PrefixLimit THEN text.len ELSE PrefixLimit]

AnalyzeRequest(text, title) == [title |-> title, text |-> SlicePrefix(text)]

\* data.content.map(item => item.type === "text" ? item.text : "").join("")
RECURSIVE JoinText(_)
JoinText(items) ==
  IF items = <<>> THEN <<>>
  ELSE (IF Head(items).type = "text" THEN Head(items).text ELSE <<>>)
         \o JoinText(Tail(items))

\* .replace(/(fence)json|(fence)/g, ""): both code-fence markers go
StripFences(toks) == SelectSeq(toks, LAMBDA k : k.t \notin {"fence_json", "fence"})

\* .trim()
RECURSIVE TrimLeft(_)
TrimLeft(toks) ==
  IF toks # <<>> /\ Head(toks).t = "ws" THEN TrimLeft(Tail(toks)) ELSE toks

RECURSIVE TrimRight(_)
TrimRight(toks) ==
  IF toks # <<>> /\ toks[Len(toks)].t = "ws"
  THEN TrimRight(SubSeq(toks, 1, Len(toks) - 1))
  ELSE toks

Trim(toks) == TrimRight(TrimLeft(toks))

Clean(resp) == Trim(StripFences(JoinText(resp.body.content)))

\* JSON.parse(clean) succeeds on the text of exactly one JSON value
ParseCleanThrows(toks) == ~(Len(toks) = 1 /\ toks[1].t = "value")

\* what makes the try block (lines 77-110) throw: fetch rejecting,
\* response.json() on a body that is not JSON, data.content.map on a body
\* without content, JSON.parse on text that is not JSON.  The status of the
\* reply is read nowhere.
AnalyzeCatches(resp) ==
  \/ ~resp.net
  \/ ~resp.body.isJson
  \/ ~resp.body.hasContent
  \/ ParseCleanThrows(Clean(resp))

analyzeDocument(resp) ==
  IF AnalyzeCatches(resp) THEN Fallback ELSE Clean(resp)[1].val


(***************************************************************************)
(* State.                                                                  *)
(*   documents, selectedDoc, notes, links : the useState cells (lines      *)
(*     5-12); notes and links are objects keyed by document id             *)
(*   store   : window.storage, a map from keys <<namespace, id>> to the    *)
(*     stored strings                                                      *)
(*   faults  : the keys whose get throws and the prefixes whose list       *)
(*     throws (the store's own condition, outside the program's control)   *)
(*   pending : the storage.set calls in flight that no handler waits on    *)
(*     with further work (upload, addTag, addNote, linkDocuments)          *)
(*   ld, upl, rg, dl : where each call of loadData, each reader.onload of  *)
(*     handleFileUpload, each regenerateAnalysis and each deleteDocument   *)
(*     stands, with the values its closure captured                        *)
(*   an      : one call of analyzeDocument on its own                      *)
(*   issued, solo, ops : history kept for the properties: the doc: writes  *)
(*     the uploads issued; the regenerateAnalysis or deleteDocument call   *)
(*     that started with nothing in flight and that no other operation has *)
(*     followed; the number of operations started                          *)
(*   call : the handler called in the step just taken                      *)
(*   searchTerm, filterTag : the search field and the tag menu (lines 7-8) *)
(***************************************************************************)
VARIABLES documents, selectedDoc, notes, links, store, faults, pending,
          ld, upl, rg, dl, an, issued, solo, call, ops, searchTerm, filterTag

vars ==
  <<documents, selectedDoc, notes, links, store, faults, pending,
    ld, upl, rg, dl, an, issued, solo, call, ops, searchTerm, filterTag>>

memory == <<documents, selectedDoc, notes, links>>

EmptyMap == [x \in {} |-> <<>>]

\* { ...prev, [k]: v }
Put(m, k, v) == [x \in (DOMAIN m) \cup {k} |-> IF x = k THEN v ELSE m[x]]

Remove(m, k) == [x \in (DOMAIN m) \ {k} |-> m[x]]

\* m[k] || []
GetOrEmpty(m, k) == IF k \in DOMAIN m THEN m[k] ELSE <<>>

(***************************************************************************)
(* What is in flight, and the history kept for the properties.             *)
(***************************************************************************)
NoOp == [op |-> "none", id |-> 0]

InFlight ==
  \/ \E id \in DOMAIN upl : upl[id].pc \in {"reading", "analyzing"}
  \/ \E id \in DOMAIN rg : rg[id].pc \in {"analyzing", "persisting"}
  \/ \E id \in DOMAIN dl : dl[id].pc \in {"delDoc", "delNotes", "delLinks"}
  \/ ld.pc \in {"list", "get"}
  \/ pending # {}

\* a regenerateAnalysis or deleteDocument call starts: it is on its own when
\* nothing is in flight; any other operation that starts ends that
Tracked(op, id) == solo' = IF InFlight THEN NoOp ELSE [op |-> op, id |-> id]

Untracked == solo' = NoOp

\* the handler the user called in the step just taken, with the document and
\* the value it was called with; none after a step that a call coming back
\* takes
NoCall == [op |-> "none", id |-> 0, arg |-> "none"]

Called(op, id, arg) == call' = [op |-> op, id |-> id, arg |-> arg]

(***************************************************************************)
(* The store (window.storage): keys doc:<id>, notes:<id>, links:<id>.      *)
(***************************************************************************)
Namespaces == <<"doc", "notes", "links">>

Key(ns, id) == <<ns, id>>

\* key.replace('notes:', '') : the id part of a key
KeyId(k) == k[2]

\* the keys list(prefix) returns, in the store's order (ascending id)
RECURSIVE SortedIds(_)
SortedIds(S) ==
  IF S = {} THEN <<>>
  ELSE LET m == CHOOSE x \in S : \A y \in S : x <= y
       IN <<m>> \o SortedIds(S \ {m})

ListKeys(st, ns) ==
  LET ids == SortedIds({KeyId(k) : k \in {q \in DOMAIN st : q[1] = ns}})
  IN [i \in 1..Len(ids) |-> Key(ns, ids[i])]

StoreSet(st, k, v) == Put(st, k, v)

StoreDelete(st, k) == Remove(st, k)

NoFaults == [get |-> {}, list |-> {}]

(***************************************************************************)
(* loadData (lines 18-74).                                                 *)
(***************************************************************************)
LoadIdle ==
  [pc |-> "idle", listed |-> <<>>, todo |-> <<>>,
   docs |-> <<>>, notes |-> EmptyMap, links |-> EmptyMap]

\* lines 27-34, 41-50, 57-65: what one get adds to the collection being
\* built.  A get that throws, a result without a value, and a value that
\* JSON.parse rejects all leave it as it was.
GetSkips(st, flt, k) ==
  \/ k \in flt.get
  \/ k \notin DOMAIN st
  \/ st[k].kind = "empty"
  \/ ParseThrows(st[k])

\* A loop that gives up its collections at the first skipped key, which the
\* try/catch inside the loops (lines 26-34) is there to prevent.
LoadOneDropsOnSkip(l, st, flt, k) ==
  IF GetSkips(st, flt, k)
  THEN [l EXCEPT !.docs = <<>>, !.notes = EmptyMap, !.links = EmptyMap]
  ELSE IF k[1] = "doc" THEN [l EXCEPT !.docs = Append(l.docs, Parse(st[k]))]
  ELSE IF k[1] = "notes" THEN [l EXCEPT !.notes = Put(l.notes, KeyId(k), Parse(st[k]))]
  ELSE [l EXCEPT !.links = Put(l.links, KeyId(k), Parse(st[k]))]

LoadOne(l, st, flt, k) ==
  IF GetSkips(st, flt, k) THEN l
  ELSE IF k[1] = "doc" THEN [l EXCEPT !.docs = Append(l.docs, Parse(st[k]))]
  ELSE IF k[1] = "notes" THEN [l EXCEPT !.notes = Put(l.notes, KeyId(k), Parse(st[k]))]
  ELSE [l EXCEPT !.links = Put(l.links, KeyId(k), Parse(st[k]))]

\* line 20: the call starts with list('doc:')
LoadStart ==
  /\ ld.pc \in {"idle", "done", "failed"}
  /\ ops < MaxLoads
  /\ ops' = ops + 1
  /\ ld' = [LoadIdle EXCEPT !.pc = "list"]
  /\ Untracked
  /\ Called("load", 0, "none")
  /\ UNCHANGED <<searchTerm, filterTag,
                 documents, selectedDoc, notes, links, store, faults, pending,
                 upl, rg, dl, an, issued>>

\* A commit that adds the loaded documents to the ones in memory where lines
\* 68-70 replace them.
LoadCommitAppends(l) ==
  /\ documents' = documents \o l.docs
  /\ notes' = l.notes
  /\ links' = l.links

\* lines 68-70
LoadCommit(l) ==
  /\ documents' = l.docs
  /\ notes' = l.notes
  /\ links' = l.links

\* lines 20-22: a list call resolves.  When it throws the catch of line 71
\* ends the call and no state is set.  After the third list the three loops
\* run; with no key to get they are over at once and lines 68-70 run.
LoadListed ==
  /\ ld.pc = "list"
  /\ LET ns == Namespaces[Len(ld.listed) + 1]
     IN IF ns \in faults.list
        THEN /\ ld' = [ld EXCEPT !.pc = "failed"]
             /\ UNCHANGED <<documents, notes, links>>
        ELSE LET listed == Append(ld.listed, ListKeys(store, ns))
             IN IF Len(listed) < Len(Namespaces)
                THEN /\ ld' = [ld EXCEPT !.listed = listed]
                     /\ UNCHANGED <<documents, notes, links>>
                ELSE LET todo == listed[1] \o listed[2] \o listed[3]
                     IN IF todo = <<>>
                        THEN /\ ld' = [ld EXCEPT !.pc = "done", !.listed = listed]
                             /\ LoadCommit(ld)
                        ELSE /\ ld' = [ld EXCEPT !.pc = "get", !.listed = listed,
                                                 !.todo = todo]
                             /\ UNCHANGED <<documents, notes, links>>
  /\ call' = NoCall
  /\ UNCHANGED <<searchTerm, filterTag,
                 selectedDoc, store, faults, pending, upl, rg, dl, an, issued,
                 solo, ops>>

\* lines 28, 42, 58: the get of the next key resolves; after the last key
\* lines 68-70 replace the three collections.
LoadGot ==
  /\ ld.pc = "get"
  /\ LET l == LoadOne(ld, store, faults, Head(ld.todo))
         rest == Tail(ld.todo)
     IN IF rest = <<>>
        THEN /\ ld' = [l EXCEPT !.pc = "done", !.todo = rest]
             /\ LoadCommit(l)
        ELSE /\ ld' = [l EXCEPT !.todo = rest]
             /\ UNCHANGED <<documents, notes, links>>
  /\ call' = NoCall
  /\ UNCHANGED <<searchTerm, filterTag,
                 selectedDoc, store, faults, pending, upl, rg, dl, an, issued,
                 solo, ops>>


(***************************************************************************)
(* Documents, notes and links as the component builds them.                *)
(***************************************************************************)
\* String(id): the value of an <option>, which linkDocuments receives
IdString(id) == [str |-> id]

\* A picked file: its name as the parts between its dots, its type, its
\* text.  id stands for the Date.now() + Math.random() drawn for it at line
\* 140, taken to differ from every other id.
File1 ==
  [id |-> 1, name |-> <<"notes", "txt">>, type |-> "text/plain",
   text |-> [name |-> "Alice met Bob to discuss graph theory.", len |-> 38]]

File2 ==
  [id |-> 2, name |-> <<"paper", "v2", "pdf">>, type |-> "application/pdf",
   text |-> [name |-> "%PDF-1.4", len |-> 9000]]

Files == {File1, File2}

DocIds == {f.id : f \in Files}

FileOf(id) == CHOOSE f \in Files : f.id = id

\* file.name.replace(/\.[^/.]+$/, "") : the last dot and what follows it go,
\* when something follows it
StripExt(name) ==
  IF Len(name) >= 2 /\ name[Len(name)] # ""
  THEN SubSeq(name, 1, Len(name) - 1)
  ELSE name

\* the characters of the notice of line 134 around ${file.name}
NoticeLen == 148

\* file.name.length: the characters of the parts and the dots between them
RECURSIVE PartsLength(_)
PartsLength(parts) ==
  IF parts = <<>> THEN 0 ELSE Len(Head(parts)) + PartsLength(Tail(parts))

NameLength(name) ==
  IF name = <<>> THEN 0 ELSE PartsLength(name) + Len(name) - 1

\* lines 131-135: a PDF's text is the notice of line 134 with the file's
\* name in it, not its content
TextOf(file) ==
  IF file.type = "application/pdf"
  THEN [noticeFor |-> file.name, len |-> NoticeLen + NameLength(file.name)]
  ELSE file.text

\* lines 139-147 (uploadDate, a reading of the clock, is left out)
NewDoc(file, analysis) ==
  Spread([id |-> file.id, title |-> StripExt(file.name), content |-> TextOf(file),
          fileType |-> file.type, tags |-> <<Prop(analysis, "topic")>>],
         analysis)

DocKey(id) == Key("doc", id)

Ids(docs) == {docs[i].id : i \in 1..Len(docs)}

\* documents.find(d => d.id === id), for an id that is there
Find(docs, id) ==
  docs[CHOOSE i \in 1..Len(docs) :
         docs[i].id = id /\ \A j \in 1..(i - 1) : docs[j].id # id]

SetRequest(k, v) == [key |-> k, val |-> JsonText(v)]


(***************************************************************************)
(* Task records of the handlers, at rest.                                  *)
(***************************************************************************)
UploadIdle == [pc |-> "idle", reply |-> "none"]

\* A call of regenerateAnalysis or of deleteDocument runs in a task record
\* of its own: nothing in the code keeps a second call from starting while
\* an earlier one, on the same document or another, is awaiting.  A record
\* keeps the document's id and how the call ended.
TaskSlots == 1..MaxOps

RegenIdle ==
  [pc |-> "idle", id |-> 0, docs |-> <<>>, doc |-> JsNull, sel |-> JsNull,
   analysis |-> JsNull]

DeleteIdle == [pc |-> "idle", id |-> 0, sel |-> JsNull, failedAt |-> "none"]

\* the record a new call takes: the first one at rest
FreeTask(tasks) ==
  CHOOSE s \in DOMAIN tasks :
    /\ tasks[s].pc = "idle"
    /\ \A t \in DOMAIN tasks : t < s => tasks[t].pc # "idle"

AnalyzeIdle == [pc |-> "idle"]

TasksIdle ==
  /\ upl = [id \in DocIds |-> UploadIdle]
  /\ rg = [s \in TaskSlots |-> RegenIdle]
  /\ dl = [s \in TaskSlots |-> DeleteIdle]
  /\ pending = {}
  /\ issued = {}
  /\ solo = NoOp
  /\ call = NoCall
  /\ ops = 0
  /\ searchTerm = <<>>
  /\ filterTag = ""

MemoryEmpty ==
  /\ documents = <<>>
  /\ selectedDoc = JsNull
  /\ notes = EmptyMap
  /\ links = EmptyMap

(***************************************************************************)
(* Replies that are no AnalysisResult.                                     *)
(***************************************************************************)
\* a reply that is no AnalysisResult: none at all, an HTTP error, a body or
\* a text that is not JSON, or JSON of another shape
IsAnalysisResult(v) ==
  /\ ~IsNull(v)
  /\ DOMAIN v = {"summary", "keywords", "entities", "topic"}

FailureReply(resp) ==
  \/ ~resp.net
  \/ ~resp.ok
  \/ AnalyzeCatches(resp)
  \/ ~IsAnalysisResult(Clean(resp)[1].val)

(***************************************************************************)
(* window.storage.set calls nobody waits on with further work: the call    *)
(* takes effect, or fails, when it resolves.                               *)
(***************************************************************************)
\* A set whose failure takes the in-memory change back.
SetResolvedRollsBack(req, ok) ==
  /\ req \in pending
  /\ pending' = pending \ {req}
  /\ store' = IF ok THEN StoreSet(store, req.key, req.val) ELSE store
  /\ documents' = IF ~ok /\ req.key[1] = "doc"
                  THEN SelectSeq(documents, LAMBDA d : d.id # KeyId(req.key))
                  ELSE documents
  /\ notes' = IF ~ok /\ req.key[1] = "notes"
              THEN Remove(notes, KeyId(req.key)) ELSE notes
  /\ links' = IF ~ok /\ req.key[1] = "links"
              THEN Remove(links, KeyId(req.key)) ELSE links
  /\ call' = NoCall
  /\ UNCHANGED <<searchTerm, filterTag, selectedDoc, faults, ld, upl, rg, dl,
                 an, issued, solo, ops>>

SetResolved(req, ok) ==
  /\ req \in pending
  /\ pending' = pending \ {req}
  /\ store' = IF ok THEN StoreSet(store, req.key, req.val) ELSE store
  /\ call' = NoCall
  /\ UNCHANGED <<searchTerm, filterTag,
                 documents, selectedDoc, notes, links, faults, ld, upl, rg, dl,
                 an, issued, solo, ops>>

(***************************************************************************)
(* handleFileUpload (lines 122-165).                                       *)
(***************************************************************************)
\* lines 123-161: a reader is started for every picked file
UploadStart(S) ==
  /\ S # {}
  /\ \A id \in S : upl[id].pc = "idle"
  /\ ops < MaxOps
  /\ ops' = ops + 1
  /\ upl' = [id \in DocIds |-> IF id \in S THEN [upl[id] EXCEPT !.pc = "reading"]
                                ELSE upl[id]]
  /\ Untracked
  /\ Called("upload", 0, "none")
  /\ UNCHANGED <<searchTerm, filterTag,
                 documents, selectedDoc, notes, links, store, faults, pending,
                 ld, rg, dl, an, issued>>

\* lines 129-137: the read completes, onload calls analyzeDocument
UploadRead(id) ==
  /\ upl[id].pc = "reading"
  /\ upl' = [upl EXCEPT ![id].pc = "analyzing"]
  /\ call' = NoCall
  /\ UNCHANGED <<searchTerm, filterTag,
                 documents, selectedDoc, notes, links, store, faults, pending,
                 ld, rg, dl, an, issued, solo, ops>>

\* the read fails: onload never runs
UploadReadError(id) ==
  /\ upl[id].pc = "reading"
  /\ upl' = [upl EXCEPT ![id].pc = "readerr"]
  /\ call' = NoCall
  /\ UNCHANGED <<searchTerm, filterTag,
                 documents, selectedDoc, notes, links, store, faults, pending,
                 ld, rg, dl, an, issued, solo, ops>>

\* An append to the list the handler captured when the files were chosen
\* (setDocuments([...documents, newDoc])), where line 149 uses the updater.
AppendDocStale(docs, newDoc) == <<newDoc>>

\* lines 149-153: setDocuments(prev => [...prev, newDoc]) with the set of
\* doc:<id> issued inside the updater
AppendDoc(docs, newDoc) == Append(docs, newDoc)

\* lines 137-153: the analysis returns.  analysis.topic on null is a
\* TypeError: onload ends there.
UploadAnalyzed(id, resp) ==
  /\ upl[id].pc = "analyzing"
  /\ Cardinality(pending) < MaxPending
  /\ LET analysis == analyzeDocument(resp)
         reply == IF FailureReply(resp) THEN "failed" ELSE "good"
     IN IF IsNull(analysis)
        THEN /\ upl' = [upl EXCEPT ![id] = [pc |-> "threw", reply |-> reply]]
             /\ UNCHANGED <<documents, pending, issued>>
        ELSE LET newDoc == NewDoc(FileOf(id), analysis)
                 req == SetRequest(DocKey(newDoc.id), StringifyDoc(newDoc))
             IN /\ upl' = [upl EXCEPT ![id] = [pc |-> "done", reply |-> reply]]
                /\ documents' = AppendDoc(documents, newDoc)
                /\ pending' = pending \cup {req}
                /\ issued' = issued \cup {req}
  /\ call' = NoCall
  /\ UNCHANGED <<searchTerm, filterTag,
                 selectedDoc, notes, links, store, faults, ld, rg, dl, an,
                 solo, ops>>

(***************************************************************************)
(* Selecting a document (line 340): selectedDoc is the object of the list  *)
(* as it is at the click.                                                  *)
(***************************************************************************)
Select(i) ==
  /\ i \in 1..Len(documents)
  /\ selectedDoc # documents[i]
  /\ ops < MaxOps
  /\ ops' = ops + 1
  /\ selectedDoc' = documents[i]
  /\ Untracked
  /\ Called("select", documents[i].id, "none")
  /\ UNCHANGED <<searchTerm, filterTag,
                 documents, notes, links, store, faults, pending, ld, upl, rg,
                 dl, an, issued>>

(***************************************************************************)
(* regenerateAnalysis (lines 167-183).  The handler of a render closes     *)
(* over that render's documents and selectedDoc: what it reads after its   *)
(* await is what they were when it was called.                             *)
(***************************************************************************)
\* A replacement that puts the new topic in front of all the old tags, where
\* line 172 drops the old first tag with slice(1).
ReanalyzedKeepsFirst(d, analysis) ==
  Spread(Spread(d, analysis),
         [tags |-> <<Prop(analysis, "topic")>> \o d.tags])

\* line 172: { ...d, ...analysis, tags: [analysis.topic, ...d.tags.slice(1)] }
Reanalyzed(d, analysis) ==
  Spread(Spread(d, analysis),
         [tags |-> <<Prop(analysis, "topic")>> \o Slice1(d.tags)])

\* lines 171-173
RegenerateDocs(docs, doc, analysis) ==
  [i \in 1..Len(docs) |->
     IF docs[i].id = doc.id THEN Reanalyzed(docs[i], analysis) ELSE docs[i]]

\* line 176 and line 179: { ...doc, ...analysis }
RegenPayload(doc, analysis) == Spread(doc, analysis)

\* lines 167-169: the click on a listed document, whatever else is awaiting
RegenStart(i) ==
  /\ i \in 1..Len(documents)
  /\ ops < MaxOps
  /\ ops' = ops + 1
  /\ rg' = [rg EXCEPT ![FreeTask(rg)] =
              [pc |-> "analyzing", id |-> documents[i].id, docs |-> documents,
               doc |-> documents[i], sel |-> selectedDoc,
               analysis |-> JsNull]]
  /\ Tracked("regen", documents[i].id)
  /\ Called("regen", documents[i].id, "none")
  /\ UNCHANGED <<searchTerm, filterTag,
                 documents, selectedDoc, notes, links, store, faults, pending,
                 ld, upl, dl, an, issued>>

\* lines 169-176: the analysis of the call of record s returns;
\* analysis.topic on null is a TypeError, which ends the call; otherwise the
\* list computed from the captured documents is set and the set of doc:<id>
\* goes out
RegenAnalyzed(s, resp) ==
  /\ rg[s].pc = "analyzing"
  /\ LET analysis == analyzeDocument(resp)
     IN IF IsNull(analysis) /\ rg[s].doc.id \in Ids(rg[s].docs)
        THEN /\ rg' = [rg EXCEPT ![s] = [RegenIdle EXCEPT !.pc = "threw",
                                                          !.id = rg[s].id]]
             /\ UNCHANGED documents
        ELSE /\ documents' = RegenerateDocs(rg[s].docs, rg[s].doc, analysis)
             /\ rg' = [rg EXCEPT ![s].pc = "persisting", ![s].docs = <<>>,
                                 ![s].analysis = analysis]
  /\ call' = NoCall
  /\ UNCHANGED <<searchTerm, filterTag,
                 selectedDoc, notes, links, store, faults, pending, ld, upl, dl,
                 an, issued, solo, ops>>

\* lines 176-182: the set resolves; when it throws the call ends there
RegenPersisted(s, ok) ==
  /\ rg[s].pc = "persisting"
  /\ LET t == rg[s]
         payload == RegenPayload(t.doc, t.analysis)
     IN IF ok
        THEN /\ store' = StoreSet(store, DocKey(t.doc.id), JsonText(StringifyDoc(payload)))
             /\ selectedDoc' = IF ~IsNull(t.sel) /\ t.sel.id = t.doc.id
                               THEN payload ELSE selectedDoc
             /\ rg' = [rg EXCEPT ![s] = [RegenIdle EXCEPT !.pc = "done",
                                                          !.id = t.id]]
        ELSE /\ rg' = [rg EXCEPT ![s] = [RegenIdle EXCEPT !.pc = "threw",
                                                          !.id = t.id]]
             /\ UNCHANGED <<store, selectedDoc>>
  /\ call' = NoCall
  /\ UNCHANGED <<searchTerm, filterTag,
                 documents, notes, links, faults, pending, ld, upl, dl, an,
                 issued, solo, ops>>

(***************************************************************************)
(* addNote (lines 185-196), linkDocuments (lines 198-205), addTag (lines   *)
(* 215-224): memory is set and the set goes out in one run.                *)
(***************************************************************************)
NoteTexts == {"check this"}

TagInputs == {"todo", "Physics"}

\* lines 187-191 (id and timestamp, readings of the clock, are left out)
NewNote(text) == [text |-> text]

\* the note field of the selected document (lines 438-441)
AddNote(text) ==
  /\ ~IsNull(selectedDoc)
  /\ ops < MaxOps
  /\ Cardinality(pending) < MaxPending
  /\ ops' = ops + 1
  /\ LET docId == selectedDoc.id
         updated == Append(GetOrEmpty(notes, docId), NewNote(text))
     IN /\ notes' = Put(notes, docId, updated)
        /\ pending' = pending \cup {SetRequest(Key("notes", docId), StringifyList(updated))}
        /\ Untracked
        /\ Called("note", docId, text)
  /\ UNCHANGED <<searchTerm, filterTag,
                 documents, selectedDoc, links, store, faults, ld, upl, rg, dl,
                 an, issued>>

\* A linkDocuments without the test of line 200.
LinkDocumentsUnchecked(target) ==
  /\ ~IsNull(selectedDoc)
  /\ target \in Ids(documents) \ {selectedDoc.id}
  /\ ops < MaxOps
  /\ Cardinality(pending) < MaxPending
  /\ ops' = ops + 1
  /\ LET docId == selectedDoc.id
         updated == Append(GetOrEmpty(links, docId), IdString(target))
     IN /\ links' = Put(links, docId, updated)
        /\ pending' = pending \cup
             {SetRequest(Key("links", docId), StringifyList(updated))}
        /\ Untracked
        /\ Called("link", docId, IdString(target))
  /\ UNCHANGED <<searchTerm, filterTag,
                 documents, selectedDoc, notes, store, faults, ld, upl, rg, dl,
                 an, issued>>

\* the link menu of the selected document (lines 453-465): the target is the
\* string value of an option for another listed document
LinkDocuments(target) ==
  /\ ~IsNull(selectedDoc)
  /\ target \in Ids(documents) \ {selectedDoc.id}
  /\ ops < MaxOps
  /\ Cardinality(pending) < MaxPending
  /\ ops' = ops + 1
  /\ LET docId == selectedDoc.id
         docLinks == GetOrEmpty(links, docId)
         updated == Append(docLinks, IdString(target))
     IN /\ IF ~Includes(docLinks, IdString(target))
           THEN /\ links' = Put(links, docId, updated)
                /\ pending' = pending \cup
                     {SetRequest(Key("links", docId), StringifyList(updated))}
           ELSE UNCHANGED <<links, pending>>
        /\ Untracked
        /\ Called("link", docId, IdString(target))
  /\ UNCHANGED <<searchTerm, filterTag,
                 documents, selectedDoc, notes, store, faults, ld, upl, rg, dl,
                 an, issued>>

\* A map without the test of line 217.
TagAddedUnchecked(docs, docId, tag) ==
  [i \in 1..Len(docs) |->
     IF docs[i].id = docId
     THEN [docs[i] EXCEPT !.tags = Append(@, tag)]
     ELSE docs[i]]

\* lines 216-220
TagAdded(docs, docId, tag) ==
  [i \in 1..Len(docs) |->
     IF docs[i].id = docId /\ ~Includes(docs[i].tags, tag)
     THEN [docs[i] EXCEPT !.tags = Append(@, tag)]
     ELSE docs[i]]

AddTag(i, tag) ==
  /\ i \in 1..Len(documents)
  /\ ops < MaxOps
  /\ Cardinality(pending) < MaxPending
  /\ ops' = ops + 1
  /\ LET docId == documents[i].id
         updated == TagAdded(documents, docId, tag)
     IN /\ documents' = updated
        /\ pending' = pending \cup
             {SetRequest(DocKey(docId), StringifyDoc(Find(updated, docId)))}
        /\ Untracked
        /\ Called("tag", docId, tag)
  /\ UNCHANGED <<searchTerm, filterTag,
                 selectedDoc, notes, links, store, faults, ld, upl, rg, dl, an,
                 issued>>

(***************************************************************************)
(* deleteDocument (lines 207-213).                                         *)
(***************************************************************************)
\* line 208
WithoutDoc(docs, docId) == SelectSeq(docs, LAMBDA d : d.id # docId)

\* lines 208-209: the click on a listed document, whatever else is awaiting
DeleteStart(i) ==
  /\ i \in 1..Len(documents)
  /\ ops < MaxOps
  /\ ops' = ops + 1
  /\ documents' = WithoutDoc(documents, documents[i].id)
  /\ dl' = [dl EXCEPT ![FreeTask(dl)] =
              [pc |-> "delDoc", id |-> documents[i].id, sel |-> selectedDoc,
               failedAt |-> "none"]]
  /\ Tracked("delete", documents[i].id)
  /\ Called("delete", documents[i].id, "none")
  /\ UNCHANGED <<searchTerm, filterTag,
                 selectedDoc, notes, links, store, faults, pending, ld, upl, rg,
                 an, issued>>

DeleteKeyOf(pc, id) ==
  IF pc = "delDoc" THEN Key("doc", id)
  ELSE IF pc = "delNotes" THEN Key("notes", id)
  ELSE Key("links", id)

DeleteNext(pc) ==
  IF pc = "delDoc" THEN "delNotes" ELSE IF pc = "delNotes" THEN "delLinks" ELSE "done"

\* lines 209-212: a delete of the call of record s resolves; when it throws
\* the call ends there, otherwise the next delete goes out, and after the
\* third line 212 runs on the captured selectedDoc
DeleteResolved(s, ok) ==
  /\ dl[s].pc \in {"delDoc", "delNotes", "delLinks"}
  /\ LET t == dl[s]
     IN IF ok
        THEN /\ store' = StoreDelete(store, DeleteKeyOf(t.pc, t.id))
             /\ dl' = [dl EXCEPT ![s].pc = DeleteNext(t.pc),
                                 ![s].sel = IF DeleteNext(t.pc) = "done"
                                            THEN JsNull ELSE t.sel]
             /\ selectedDoc' = IF /\ DeleteNext(t.pc) = "done"
                                  /\ ~IsNull(t.sel)
                                  /\ t.sel.id = t.id
                               THEN JsNull ELSE selectedDoc
        ELSE /\ dl' = [dl EXCEPT ![s] = [pc |-> "threw", id |-> t.id,
                                          sel |-> JsNull, failedAt |-> t.pc]]
             /\ UNCHANGED <<store, selectedDoc>>
  /\ call' = NoCall
  /\ UNCHANGED <<searchTerm, filterTag,
                 documents, notes, links, faults, pending, ld, upl, rg, an,
                 issued, solo, ops>>

(***************************************************************************)
(* filteredDocs (lines 226-232), computed at every render from the current *)
(* documents, searchTerm and filterTag.  Where the filter is checked the   *)
(* title, the summary, the keywords and the search term are sequences of   *)
(* letters.                                                                *)
(***************************************************************************)
\* String.prototype.toLowerCase, on the letters used
LowerOf(c) == IF c = "A" THEN "a" ELSE IF c = "B" THEN "b" ELSE c

\* The search without toLowerCase.
ToLowerCaseKeepsCase(str) == str

ToLowerCase(str) == [i \in 1..Len(str) |-> LowerOf(str[i])]

\* String.prototype.includes
StrIncludes(str, part) ==
  \E at \in 0..(Len(str) - Len(part)) : SubSeq(str, at + 1, at + Len(part)) = part

\* lines 227-229: a || b || c of a value, an optional chain and another; a
\* missing summary or keywords gives undefined, which counts as false
MatchesSearch(doc, term) ==
  \/ StrIncludes(ToLowerCase(doc.title), ToLowerCase(term))
  \/ /\ Prop(doc, "summary") # Undefined
     /\ StrIncludes(ToLowerCase(doc.summary), ToLowerCase(term))
  \/ /\ Prop(doc, "keywords") # Undefined
     /\ \E n \in 1..Len(doc.keywords) :
          StrIncludes(ToLowerCase(doc.keywords[n]), ToLowerCase(term))

\* line 230: !filterTag || doc.tags.includes(filterTag)
MatchesTag(doc, tag) == tag = "" \/ Includes(doc.tags, tag)

FilterDocs(docs, term, tag) ==
  SelectSeq(docs, LAMBDA doc : MatchesSearch(doc, term) /\ MatchesTag(doc, tag))

filteredDocs == FilterDocs(documents, searchTerm, filterTag)

\* line 297: the search box changes; it starts no call of the store
SetSearchTerm(term) ==
  /\ ops < MaxOps
  /\ ops' = ops + 1
  /\ searchTerm' = term
  /\ call' = NoCall
  /\ UNCHANGED <<filterTag, documents, selectedDoc, notes, links, store, faults,
                 pending, ld, upl, rg, dl, an, issued, solo>>

\* line 305: the tag filter changes
SetFilterTag(tag) ==
  /\ ops < MaxOps
  /\ ops' = ops + 1
  /\ filterTag' = tag
  /\ call' = NoCall
  /\ UNCHANGED <<searchTerm, documents, selectedDoc, notes, links, store, faults,
                 pending, ld, upl, rg, dl, an, issued, solo>>

(***************************************************************************)
(* What a load of a store yields, said without the loop of loadData.       *)
(***************************************************************************)
\* a record load can read: the key is there, its get succeeds and its value
\* is JSON text
ValidRecord(st, flt, k) ==
  /\ k \in DOMAIN st
  /\ k \notin flt.get
  /\ st[k].kind = "json"

\* the valid records among keys, as a list and as a map by id
ExpectedDocs(st, flt, keys) ==
  LET good == SelectSeq(keys, LAMBDA k : ValidRecord(st, flt, k))
  IN [i \in 1..Len(good) |-> st[good[i]].val]

ExpectedMap(st, flt, keys) ==
  LET good == {k \in Range(keys) : ValidRecord(st, flt, k)}
  IN [id \in {KeyId(k) : k \in good} |-> st[CHOOSE k \in good : KeyId(k) = id].val]

(***************************************************************************)
(* SpecLoad: loadData called, and called again, on a store left by earlier *)
(* sessions: per key a valid record, a value that is not JSON, an empty    *)
(* value or nothing; at most MaxBad keys or calls of the store are bad.    *)
(***************************************************************************)
AllKeys == {Key(Namespaces[n], id) : n \in 1..Len(Namespaces), id \in DocIds}

StoredValid(k) ==
  IF k[1] = "doc" THEN JsonText(StringifyDoc(NewDoc(FileOf(KeyId(k)), ResultA)))
  ELSE IF k[1] = "notes" THEN JsonText(<<[text |-> "check this"]>>)
  ELSE JsonText(<<IdString(CHOOSE o \in DocIds : o # KeyId(k))>>)

StoreOfKinds(km) ==
  [k \in {q \in AllKeys : km[q] # "absent"} |->
     IF km[k] = "valid" THEN StoredValid(k)
     ELSE IF km[k] = "corrupt" THEN Corrupt
     ELSE EmptyText]

InitLoad ==
  /\ MemoryEmpty
  /\ TasksIdle
  /\ ld = LoadIdle
  /\ an = AnalyzeIdle
  /\ \E km \in [AllKeys -> {"absent", "valid", "corrupt", "empty"}] :
       \E gf \in SUBSET AllKeys :
         \E lf \in SUBSET {"doc", "notes", "links"} :
           /\ \A k \in gf : km[k] = "valid"
           /\ Cardinality({k \in AllKeys : km[k] \in {"corrupt", "empty"}})
                + Cardinality(gf) + Cardinality(lf) <= MaxBad
           /\ store = StoreOfKinds(km)
           /\ faults = [get |-> gf, list |-> lf]

NextLoad == LoadStart \/ LoadListed \/ LoadGot

SpecLoad == InitLoad /\ [][NextLoad]_vars


(***************************************************************************)
(* SpecUpload: files picked together or one after the other, nothing else  *)
(* going on.                                                               *)
(***************************************************************************)
InitUpload ==
  /\ MemoryEmpty
  /\ TasksIdle
  /\ ld = LoadIdle
  /\ an = AnalyzeIdle
  /\ store = EmptyMap
  /\ faults = NoFaults

NextUpload ==
  \/ \E S \in SUBSET DocIds : UploadStart(S)
  \/ \E id \in DocIds : UploadRead(id)
  \/ \E id \in DocIds : UploadReadError(id)
  \/ \E id \in DocIds : \E resp \in Responses : UploadAnalyzed(id, resp)
  \/ \E req \in pending : \E ok \in BOOLEAN : SetResolved(req, ok)

SpecUpload == InitUpload /\ [][NextUpload]_vars


(***************************************************************************)
(* SpecAnalyze: analyzeDocument on its own, for texts shorter and longer   *)
(* than the prefix it sends and every reply of Responses.                  *)
(***************************************************************************)
AnalyzeTexts ==
  { [name |-> "t", len |-> n] : n \in {0, 38, PrefixLimit, PrefixLimit + 1} }

AnalyzeTitles == {<<"notes">>, <<"paper", "v2">>}

\* lines 78-105: the request goes out
AnalyzeCall(text, title) ==
  /\ an.pc = "idle"
  /\ an' = [pc |-> "fetching", request |-> AnalyzeRequest(text, title)]
  /\ call' = NoCall
  /\ UNCHANGED <<searchTerm, filterTag,
                 documents, selectedDoc, notes, links, store, faults, pending,
                 ld, upl, rg, dl, issued, solo, ops>>

\* lines 107-119: the reply, or the failure, comes back and the call returns
AnalyzeReturn(resp) ==
  /\ an.pc = "fetching"
  /\ an' = [pc |-> "returned", request |-> an.request, resp |-> resp,
            result |-> analyzeDocument(resp)]
  /\ call' = NoCall
  /\ UNCHANGED <<searchTerm, filterTag,
                 documents, selectedDoc, notes, links, store, faults, pending,
                 ld, upl, rg, dl, issued, solo, ops>>

InitAnalyze ==
  /\ MemoryEmpty
  /\ TasksIdle
  /\ ld = LoadIdle
  /\ an = AnalyzeIdle
  /\ store = EmptyMap
  /\ faults = NoFaults

NextAnalyze ==
  \/ \E text \in AnalyzeTexts : \E title \in AnalyzeTitles : AnalyzeCall(text, title)
  \/ \E resp \in Responses : AnalyzeReturn(resp)

SpecAnalyze == InitAnalyze /\ [][NextAnalyze]_vars

(***************************************************************************)
(* SpecMount: the component mounts (lines 14-16 call loadData) while the   *)
(* user already picks a file; the store is empty or holds the records of   *)
(* document 1, and at most MaxBad of its list calls fail.                  *)
(***************************************************************************)
MountStores ==
  { EmptyMap,
    StoreOfKinds([k \in AllKeys |-> IF KeyId(k) = 1 THEN "valid" ELSE "absent"]) }

MountUploads == {id \in DocIds : \A st \in MountStores : DocKey(id) \notin DOMAIN st}

InitMount ==
  /\ MemoryEmpty
  /\ TasksIdle
  /\ ld = [LoadIdle EXCEPT !.pc = "list"]
  /\ an = AnalyzeIdle
  /\ store \in MountStores
  /\ \E lf \in SUBSET {"doc", "notes", "links"} :
       /\ Cardinality(lf) <= MaxBad
       /\ faults = [get |-> {}, list |-> lf]

NextMount ==
  \/ LoadListed
  \/ LoadGot
  \/ \E S \in SUBSET MountUploads : UploadStart(S)
  \/ \E id \in MountUploads : UploadRead(id)
  \/ \E id \in MountUploads : UploadReadError(id)
  \/ \E id \in MountUploads : \E resp \in Responses : UploadAnalyzed(id, resp)
  \/ \E req \in pending : \E ok \in BOOLEAN : SetResolved(req, ok)

SpecMount == InitMount /\ [][NextMount]_vars


(***************************************************************************)
(* Spec: the component after its mount and load on the store an earlier    *)
(* session left (document 1 with one note), with every handler the user    *)
(* and the pending calls can run, in any order.  The files picked now are  *)
(* the others; a reply is a good one, none at all, or the text null; the   *)
(* search box and the tag filter take one value each besides the empty one *)
(* they start with.                                                        *)
(***************************************************************************)
EarlierDoc == NewDoc(File1, ResultA)

EarlierStore ==
  (DocKey(EarlierDoc.id) :> JsonText(StringifyDoc(EarlierDoc)))
    @@ (Key("notes", EarlierDoc.id) :> JsonText(StringifyList(<<NewNote("check this")>>)))

NewFiles == DocIds \ {EarlierDoc.id}

MainResponses ==
  { NoReply,
    Reply(TRUE, ContentBody(<<TextItem(<<Val(ResultA)>>)>>)),
    Reply(TRUE, ContentBody(<<TextItem(<<FenceJson, Ws, Val(ResultB), Ws, Fence>>)>>)),
    Reply(TRUE, ContentBody(<<TextItem(<<Val(JsNull)>>)>>)) }

MainSearchTerms == {<<"a">>}

MainFilterTags == {"todo"}

Init ==
  /\ TasksIdle
  /\ ld = LoadIdle
  /\ an = AnalyzeIdle
  /\ store = EarlierStore
  /\ faults = NoFaults
  /\ documents = ExpectedDocs(store, faults, ListKeys(store, "doc"))
  /\ notes = ExpectedMap(store, faults, ListKeys(store, "notes"))
  /\ links = ExpectedMap(store, faults, ListKeys(store, "links"))
  /\ selectedDoc = JsNull

Next ==
  \/ \E S \in SUBSET NewFiles : UploadStart(S)
  \/ \E id \in NewFiles : UploadRead(id)
  \/ \E id \in NewFiles : UploadReadError(id)
  \/ \E id \in NewFiles : \E resp \in MainResponses : UploadAnalyzed(id, resp)
  \/ \E req \in pending : \E ok \in BOOLEAN : SetResolved(req, ok)
  \/ \E i \in 1..Len(documents) : Select(i)
  \/ \E i \in 1..Len(documents) : RegenStart(i)
  \/ \E s \in TaskSlots : \E resp \in MainResponses : RegenAnalyzed(s, resp)
  \/ \E s \in TaskSlots : \E ok \in BOOLEAN : RegenPersisted(s, ok)
  \/ \E text \in NoteTexts : AddNote(text)
  \/ \E target \in DocIds : LinkDocuments(target)
  \/ \E i \in 1..Len(documents) : \E tag \in TagInputs : AddTag(i, tag)
  \/ \E i \in 1..Len(documents) : DeleteStart(i)
  \/ \E s \in TaskSlots : \E ok \in BOOLEAN : DeleteResolved(s, ok)
  \/ \E term \in MainSearchTerms : SetSearchTerm(term)
  \/ \E tag \in MainFilterTags : SetFilterTag(tag)

Spec == Init /\ [][Next]_vars

(***************************************************************************)
(* SpecEdit: two documents of an earlier session are listed; the user      *)
(* selects, annotates, links and tags them.                                *)
(***************************************************************************)
SecondDoc == NewDoc(File2, ResultB)

EditStore ==
  (DocKey(SecondDoc.id) :> JsonText(StringifyDoc(SecondDoc))) @@ EarlierStore

InitEdit ==
  /\ TasksIdle
  /\ ld = LoadIdle
  /\ an = AnalyzeIdle
  /\ store = EditStore
  /\ faults = NoFaults
  /\ documents = ExpectedDocs(store, faults, ListKeys(store, "doc"))
  /\ notes = ExpectedMap(store, faults, ListKeys(store, "notes"))
  /\ links = ExpectedMap(store, faults, ListKeys(store, "links"))
  /\ selectedDoc = JsNull

NextEdit ==
  \/ \E i \in 1..Len(documents) : Select(i)
  \/ \E text \in NoteTexts : AddNote(text)
  \/ \E target \in DocIds : LinkDocuments(target)
  \/ \E i \in 1..Len(documents) : \E tag \in TagInputs : AddTag(i, tag)
  \/ \E req \in pending : \E ok \in BOOLEAN : SetResolved(req, ok)

SpecEdit == InitEdit /\ [][NextEdit]_vars

(***************************************************************************)
(* SpecFilter: one or two listed documents, whose texts are spelled out in *)
(* letters, are searched, filtered by tag, and tagged.                     *)
(***************************************************************************)
FilterDoc1 ==
  [id |-> 1, title |-> <<"A", "b">>, summary |-> <<"b", "a">>,
   keywords |-> << <<"B", "B">>, <<"a">> >>, topic |-> "Physics",
   tags |-> <<"Physics">>]

\* a document whose analysis had neither summary nor keywords
FilterDoc2 ==
  [id |-> 2, title |-> <<"b">>, topic |-> "Mathematics",
   tags |-> <<"Mathematics", "todo">>]

FilterLists ==
  {<<FilterDoc1>>, <<FilterDoc2>>, <<FilterDoc1, FilterDoc2>>, <<FilterDoc2, FilterDoc1>>}

SearchTerms ==
  {<<>>, <<"a">>, <<"B">>, <<"A", "B">>, <<"b", "A">>, <<"b", "b">>, <<"a", "a">>}

FilterTags == {"", "Physics", "todo"}

InitFilter ==
  /\ TasksIdle
  /\ ld = LoadIdle
  /\ an = AnalyzeIdle
  /\ store = EmptyMap
  /\ faults = NoFaults
  /\ documents \in FilterLists
  /\ notes = EmptyMap
  /\ links = EmptyMap
  /\ selectedDoc = JsNull

NextFilter ==
  \/ \E term \in SearchTerms : SetSearchTerm(term)
  \/ \E tag \in FilterTags : SetFilterTag(tag)
  \/ \E i \in 1..Len(documents) : \E tag \in TagInputs : AddTag(i, tag)
  \/ \E req \in pending : \E ok \in BOOLEAN : SetResolved(req, ok)

SpecFilter == InitFilter /\ [][NextFilter]_vars

(***************************************************************************)
(* SpecRace: regenerateAnalysis and addTag on the listed document, with a  *)
(* store whose every set succeeds.                                         *)
(***************************************************************************)
NextRace ==
  \/ \E i \in 1..Len(documents) : RegenStart(i)
  \/ \E s \in TaskSlots : \E resp \in MainResponses : RegenAnalyzed(s, resp)
  \/ \E s \in TaskSlots : RegenPersisted(s, TRUE)
  \/ \E i \in 1..Len(documents) : \E tag \in TagInputs : AddTag(i, tag)
  \/ \E req \in pending : SetResolved(req, TRUE)

SpecRace == Init /\ [][NextRace]_vars

(***************************************************************************)
(* Properties.                                                             *)
(***************************************************************************)
LoadableIds(st, flt) == Ids(ExpectedDocs(st, flt, ListKeys(st, "doc")))

\* the record of the call made last on a document; records are taken in the
\* order of the calls
CallsOn(tasks, id) ==
  {s \in DOMAIN tasks : tasks[s].pc # "idle" /\ tasks[s].id = id}

LastCallOn(tasks, id) ==
  IF CallsOn(tasks, id) = {}
  THEN [pc |-> "idle"]
  ELSE tasks[CHOOSE s \in CallsOn(tasks, id) : \A t \in CallsOn(tasks, id) : t <= s]

\* C1: after regenerateAnalysis(doc) has completed with no store failure and
\* no other operation in flight, the entry of doc in the document list, the
\* selected document when it is doc, and the record at doc:<id> are the same
\* document, tag list included.
C1_RegenerateUpdatesAllThree ==
  \A id \in DocIds :
    (/\ LastCallOn(rg, id).pc = "done"
     /\ solo = [op |-> "regen", id |-> id]
     /\ ~InFlight
     /\ id \in Ids(documents)) =>
      /\ DocKey(id) \in DOMAIN store
      /\ ~ParseThrows(store[DocKey(id)])
      /\ Parse(store[DocKey(id)]) = Find(documents, id)
      /\ (~IsNull(selectedDoc) /\ selectedDoc.id = id) =>
           selectedDoc = Find(documents, id)

\* C2: after deleteDocument(X), also when the delete of notes:X or links:X
\* failed, the document list does not contain X and a load() yields no
\* Document with id X.
C2_DeletedStaysGone ==
  \A s \in TaskSlots :
    (\/ dl[s].pc = "done"
     \/ dl[s].pc = "threw" /\ dl[s].failedAt \in {"delNotes", "delLinks"}) =>
      /\ dl[s].id \notin Ids(documents)
      /\ dl[s].id \notin LoadableIds(store, faults)

\* C3: after deleteDocument(X) has completed with no store failure, neither
\* the store (doc:X, notes:X, links:X) nor the in-memory notes map and links
\* map hold an entry for X.
C3_DeleteCascades ==
  \A id \in DocIds :
    (/\ LastCallOn(dl, id).pc = "done"
     /\ solo = [op |-> "delete", id |-> id]
     /\ ~InFlight) =>
      /\ \A n \in 1..Len(Namespaces) : Key(Namespaces[n], id) \notin DOMAIN store
      /\ id \notin DOMAIN notes
      /\ id \notin DOMAIN links

\* C4: when an upload is ingested, tags[0] of its Document in the list is the
\* topic of its analysis result; when regenerateAnalysis sets the list,
\* tags[0] of the document is the new topic and the tags from index 1 on are
\* those the document had when regenerateAnalysis was called, in order; with
\* no other operation in flight they are those the list held just before.
C4_TagsAfterIngestAndRegenerate ==
  [][ /\ \A id \in DocIds :
           (upl[id].pc = "analyzing" /\ upl'[id].pc = "done") =>
             /\ id \in Ids(documents')
             /\ Find(documents', id).tags = <<Prop(Find(documents', id), "topic")>>
      /\ \A s \in TaskSlots :
           (rg[s].pc = "analyzing" /\ rg'[s].pc = "persisting") =>
             /\ rg[s].id \in Ids(documents')
             /\ Find(documents', rg[s].id).tags =
                  <<Prop(rg'[s].analysis, "topic")>> \o Slice1(rg[s].doc.tags)
             /\ solo = [op |-> "regen", id |-> rg[s].id] =>
                  Slice1(Find(documents', rg[s].id).tags) =
                    Slice1(Find(documents, rg[s].id).tags)
    ]_vars

\* document 1 got a tag of the user's and then a new topic, and file 2 was
\* ingested
C4_Witness ==
  /\ LastCallOn(rg, 1).pc \in {"persisting", "done"}
  /\ 1 \in Ids(documents)
  /\ Find(documents, 1).tags = <<"Physics", "todo">>
  /\ upl[2].pc = "done"
  /\ 2 \in Ids(documents)
  /\ Find(documents, 2).tags = <<"Mathematics">>

\* C5: files uploaded together are not lost to one another: for every order
\* in which their analysis calls resolve, every file whose ingest has
\* completed has exactly one Document in the in-memory list, and a store
\* write of doc:<id> with that Document's payload was issued.
C5_UploadsNotLost ==
  \A id \in DocIds :
    upl[id].pc = "done" =>
      /\ Cardinality({i \in 1..Len(documents) : documents[i].id = id}) = 1
      /\ SetRequest(DocKey(id), StringifyDoc(Find(documents, id))) \in issued

\* both files were picked in one call, and the second one's analysis resolved
\* first
C5_Witness ==
  /\ ops = 1
  /\ \A id \in DocIds : upl[id].pc = "done"
  /\ Len(documents) = 2
  /\ documents[1].id = 2
  /\ documents[2].id = 1

\* C6: ingestion never fails because analysis failed: no upload whose read
\* completed ends without a Document appended, and when the AnalysisService
\* call failed in transport or returned a malformed response the Document
\* carries the fallback result and tags = ["General"].
C6_IngestNeverFails ==
  \A id \in DocIds :
    /\ upl[id].pc # "threw"
    /\ (upl[id].pc = "done" /\ upl[id].reply = "failed") =>
         /\ id \in Ids(documents)
         /\ Find(documents, id).tags = <<"General">>
         /\ \A k \in DOMAIN Fallback : Prop(Find(documents, id), k) = Fallback[k]

\* C7: when the AnalysisService call returns an HTTP error or a body that is
\* not JSON, analyzeDocument returns exactly the fallback result.
C7_FallbackOnErrorOrNotJson ==
  (an.pc = "returned" /\ (IsHttpError(an.resp) \/ IsNotJson(an.resp)))
    => an.result = Fallback

\* C8: load() is idempotent and never writes: a load() that follows another
\* on the same store replaces the three collections by what they already
\* hold, and no step of load() changes the store or issues a set.
C8_LoadIdempotent ==
  [][ /\ (ld.pc # "done" /\ ld'.pc = "done" /\ ops >= 2) =>
           (documents' = documents /\ notes' = notes /\ links' = links)
      /\ store' = store
      /\ pending' = pending
      /\ issued' = issued ]_vars

\* a second load() has completed on a store that holds records
C8_Witness ==
  /\ ops >= 2
  /\ ld.pc = "done"
  /\ Len(documents) = 2
  /\ DOMAIN notes # {}
  /\ DOMAIN links # {}

\* C9: in load(), a key whose get fails, whose value is missing or whose
\* value does not parse is skipped, and every other valid record of the
\* namespace is loaded: after load() the three collections hold exactly the
\* valid records of the store.
C9_BadKeysSkipped ==
  ld.pc = "done" =>
    /\ documents = ExpectedDocs(store, faults, ListKeys(store, "doc"))
    /\ notes = ExpectedMap(store, faults, ListKeys(store, "notes"))
    /\ links = ExpectedMap(store, faults, ListKeys(store, "links"))

\* load() has completed on a store whose first doc: key is bad and whose
\* second one is valid
C9_Witness ==
  /\ ld.pc = "done"
  /\ DocKey(1) \in DOMAIN store
  /\ ~ValidRecord(store, faults, DocKey(1))
  /\ ValidRecord(store, faults, DocKey(2))
  /\ Len(documents) = 1
  /\ documents[1].id = 2

\* C10: what memory holds when load() completes is determined by the store
\* alone: the valid records of the keys it listed, and three empty
\* collections when a list call failed.
C10_LoadFromStoreAlone ==
  [][ (ld.pc \in {"list", "get"} /\ ld'.pc \in {"done", "failed"}) =>
        IF ld'.pc = "failed"
        THEN documents' = <<>> /\ notes' = EmptyMap /\ links' = EmptyMap
        ELSE /\ documents' = ExpectedDocs(store', faults', ld'.listed[1])
             /\ notes' = ExpectedMap(store', faults', ld'.listed[2])
             /\ links' = ExpectedMap(store', faults', ld'.listed[3]) ]_vars

NoDuplicate(s) == \A i, j \in 1..Len(s) : i # j => s[i] # s[j]

Occurrences(s, x) == Cardinality({i \in 1..Len(s) : s[i] = x})

\* C11: link lists hold no duplicate target, in memory and in the records
\* persisted at links:<docId>; after linkDocuments(A, B) the list of A holds B
\* exactly once, and a linkDocuments(A, B) on a list that holds B changes
\* nothing and writes nothing.
C11_LinksHoldNoDuplicate ==
  [][ /\ \A d \in DOMAIN links' : NoDuplicate(links'[d])
      /\ \A k \in DOMAIN store' :
           (k[1] = "links" /\ ~ParseThrows(store'[k])) => NoDuplicate(Parse(store'[k]))
      /\ call'.op = "link" =>
           /\ call'.id \in DOMAIN links'
           /\ Occurrences(links'[call'.id], call'.arg) = 1
           /\ Includes(GetOrEmpty(links, call'.id), call'.arg) =>
                (links' = links /\ pending' = pending /\ store' = store)
    ]_vars

\* linkDocuments was just called a second time with a target whose link is
\* already persisted
C11_Witness ==
  /\ call.op = "link"
  /\ pending = {}
  /\ Key("links", call.id) \in DOMAIN store
  /\ Parse(store[Key("links", call.id)]) = <<call.arg>>
  /\ links[call.id] = <<call.arg>>

\* C12: addTag(docId, tag) on a document whose tag list holds tag leaves the
\* document list as it was, and what it writes to doc:<docId> is the document
\* as it was, so a second addTag(docId, tag) gives the in-memory and the
\* persisted document of the first.
C12_AddTagIdempotent ==
  [][ (/\ call'.op = "tag"
       /\ call'.id \in Ids(documents)
       /\ Includes(Find(documents, call'.id).tags, call'.arg)) =>
        /\ documents' = documents
        /\ SetRequest(DocKey(call'.id), StringifyDoc(Find(documents, call'.id)))
             \in pending'
    ]_vars

\* addTag was just called with a tag that an earlier addTag put on the
\* document and persisted
C12_Witness ==
  /\ call.op = "tag"
  /\ call.arg = "todo"
  /\ DocKey(call.id) \in DOMAIN store
  /\ Includes(Parse(store[DocKey(call.id)]).tags, "todo")
  /\ Occurrences(Find(documents, call.id).tags, "todo") = 1

\* two letters are the same when case is left aside
SameLetter(c, d) ==
  \/ c = d
  \/ {c, d} = {"a", "A"}
  \/ {c, d} = {"b", "B"}

\* part occurs in str at some place, case left aside
OccursIn(part, str) ==
  \E at \in 0..(Len(str) - Len(part)) :
    \A n \in 1..Len(part) : SameLetter(str[at + n], part[n])

TermFound(doc, term) ==
  \/ OccursIn(term, doc.title)
  \/ "summary" \in DOMAIN doc /\ OccursIn(term, doc.summary)
  \/ "keywords" \in DOMAIN doc /\
       \E n \in 1..Len(doc.keywords) : OccursIn(term, doc.keywords[n])

TagFound(doc, tag) == tag = "" \/ \E n \in 1..Len(doc.tags) : doc.tags[n] = tag

\* C13: the filtered list is exactly the in-memory documents, in their
\* order, for which the search term occurs, case left aside, in the title,
\* the summary or a keyword, and for which the tag filter is empty or is one
\* of the document's tags; it is that for the current documents in every
\* state, so also after every mutation.
C13_FilteredDocsExact ==
  /\ Len(filteredDocs) <= Len(documents)
  /\ filteredDocs =
       SelectSeq(documents,
                 LAMBDA doc : TermFound(doc, searchTerm) /\ TagFound(doc, filterTag))

\* with a search term in another case than the title and a tag filter set,
\* addTag has just put the tag on document 1, which the filtered list now
\* shows, and it shows no other document
C13_Witness ==
  /\ call.op = "tag"
  /\ call.id = 1
  /\ searchTerm = <<"A", "B">>
  /\ filterTag = "todo"
  /\ Len(documents) = 2
  /\ Len(filteredDocs) = 1
  /\ filteredDocs[1].id = 1

StoreCallResolves ==
  \/ \E s \in TaskSlots : rg[s].pc = "persisting" /\ rg'[s].pc # "persisting"
  \/ \E s \in TaskSlots :
       dl[s].pc \in {"delDoc", "delNotes", "delLinks"} /\ dl'[s].pc # dl[s].pc
  \/ pending' # pending /\ pending' \subseteq pending

\* C14: every mutation has made all its in-memory updates when it issues its
\* store write: the step in which one of its store calls resolves changes
\* none of the in-memory collections nor the selected document.
C14_MemoryBeforePersist ==
  [][ StoreCallResolves => memory' = memory ]_vars

\* C15: a failing store delete does not abort deleteDocument: no
\* deleteDocument call ends at the delete that failed.
C15_DeleteSurvivesFailure ==
  \A s \in TaskSlots :
    dl[s].pc # "threw" /\ (dl[s].failedAt # "none" => dl[s].pc = "done")

\* C16: in every reachable state each in-memory document's tag list is
\* non-empty and holds no tag value twice.
C16_TagsNonEmptyNoDuplicate ==
  \A i \in 1..Len(documents) :
    /\ Len(documents[i].tags) >= 1
    /\ NoDuplicate(documents[i].tags)

\* C19: once deleteDocument(X) has completed with its three store deletes
\* successful, X is not in the in-memory document list and doc:X has no value,
\* whatever was in flight when the delete ran.
C19_DeletionIsFinal ==
  \A s \in TaskSlots :
    dl[s].pc = "done" =>
      /\ dl[s].id \notin Ids(documents)
      /\ DocKey(dl[s].id) \notin DOMAIN store

\* C20: the step in which regenerateAnalysis(A) sets the document list changes
\* document A only: every other document is in the list after it exactly when
\* it was before, and is as it was.
C20_RegenerateChangesOnlyItsDocument ==
  [][ \A s \in TaskSlots :
        (rg[s].pc = "analyzing" /\ rg'[s].pc = "persisting") =>
          \A b \in DocIds \ {rg[s].id} :
            /\ b \in Ids(documents') <=> b \in Ids(documents)
            /\ b \in Ids(documents) => Find(documents', b) = Find(documents, b)
    ]_vars

\* a document without the first of its tags, which regenerateAnalysis writes
\* to the list and to the store differently
ButFirstTag(doc) == [doc EXCEPT !.tags = Slice1(@)]

\* C17: when operations on one document id were in flight together, the
\* in-memory document and the record at doc:<id> may differ, and the
\* difference is transient: once nothing is in flight any more, and no set
\* has failed, the record at doc:<id> is the in-memory document (the first
\* tag left aside).
C17_DivergenceIsTransient ==
  ~InFlight =>
    \A id \in Ids(documents) :
      (DocKey(id) \in DOMAIN store /\ ~ParseThrows(store[DocKey(id)])) =>
        ButFirstTag(Parse(store[DocKey(id)])) = ButFirstTag(Find(documents, id))

SetFails ==
  \/ \E s \in TaskSlots : rg[s].pc = "persisting" /\ rg'[s].pc = "threw"
  \/ pending' # pending /\ pending' \subseteq pending /\ store' = store

\* C18: a persist failure is not rolled back: the step in which the store set
\* of upload, regenerateAnalysis, addNote, linkDocuments or addTag fails
\* leaves the in-memory collections and the selected document as they were,
\* the operation's own change included.
C18_PersistFailureNotRolledBack ==
  [][ SetFails => memory' = memory ]_vars

\* the set of regenerateAnalysis and the set of addNote have failed: the new
\* analysis and the new note are in memory and not in the store
C18_Witness ==
  /\ ~InFlight
  /\ LastCallOn(rg, 1).pc = "threw"
  /\ 1 \in Ids(documents)
  /\ DocKey(1) \in DOMAIN store
  /\ Find(documents, 1).topic # Parse(store[DocKey(1)]).topic
  /\ 1 \in DOMAIN notes
  /\ Key("notes", 1) \in DOMAIN store
  /\ Len(notes[1]) = Len(Parse(store[Key("notes", 1)])) + 1

\* C21: load() does not undo a mutation that completed while it was in
\* progress: a document whose upload appended it to the list and persisted it
\* after load() had listed the doc: keys is still in the in-memory document
\* list when load() has replaced the collections.
C21_LoadKeepsCompletedUpload ==
  [][ (ld.pc \in {"list", "get"} /\ ld'.pc = "done") =>
        \A id \in DocIds :
          (/\ upl[id].pc = "done"
           /\ id \in Ids(documents)
           /\ DocKey(id) \in DOMAIN store
           /\ ~Includes(ld'.listed[1], DocKey(id))) =>
            id \in Ids(documents')
    ]_vars

====
